---- MODULE Spec2Model ----
(***************************************************************************)
(* RadOnc DoseCheck (src/src/App.tsx): the constraint list, the            *)
(* measurement map, the add-constraint draft, the site filter and the      *)
(* tight-band toggle of the App component, and the pure classifier         *)
(* evaluateConstraint.                                                     *)
(*                                                                         *)
(* Numbers.  Doses and limits are fixed-point integers in hundredths of    *)
(* the display unit (45 Gy is 4500), so that the demo values of loadDemo   *)
(* (limit * 0.97, limit * 0.8, limit * 1.1, limit - 0.5) are exact for     *)
(* limits that are whole units.  cautionPct is an integer number of        *)
(* percent (0.05 is 5); comparisons against limit - band are made after    *)
(* multiplying both sides by PctScale, so they are exact.  The rounding of *)
(* IEEE doubles is not modelled.                                           *)
(*                                                                         *)
(* A JavaScript value of type number | undefined | null is a record        *)
(* [t, v]: t is "number" (v the finite value), "NaN", "+Infinity",         *)
(* "-Infinity", "undefined" or "null".                                     *)
(***************************************************************************)
EXTENDS Integers, Sequences, FiniteSets

VARIABLES
  constraints,        \* useState<Constraint[]>
  measurements,       \* useState<Record<string, number | undefined>>
  siteFilter,         \* useState<string>
  tightBand,          \* useState(false)
  newC,               \* useState<Partial<Constraint>>: the add draft
  nextId,             \* the ids crypto.randomUUID() has handed out so far
  call,               \* arguments of a direct call of evaluateConstraint
  ret                 \* its result

vars == <<constraints, measurements, siteFilter,
          tightBand, newC, nextId, call, ret>>

(* ---------------------------- bounds ----------------------------------- *)

\* How many constraints the user may add (ids drawn after the starter ids).
MaxAdds == 1

\* How many entries the measurement map may hold.
MaxMeasured == 1

\* Direct calls of evaluateConstraint take measured values in -MaxVal..MaxVal.
MaxVal == 25

(* --------------------------- JS values --------------------------------- *)

Undefined == [t |-> "undefined", v |-> 0]
Null      == [t |-> "null", v |-> 0]
NaN       == [t |-> "NaN", v |-> 0]
PosInf    == [t |-> "+Infinity", v |-> 0]
NegInf    == [t |-> "-Infinity", v |-> 0]
Num(x)    == [t |-> "number", v |-> x]

Abs(x) == IF x < 0 THEN -x ELSE x

PctScale == 100
LoosePct == 5
TightPct == 2

\* a <= b, a a JS number that is not NaN, b a finite number scaled alike
NumLe(a, b) ==
  CASE a.t = "number"    -> a.v <= b
    [] a.t = "-Infinity" -> TRUE
    [] OTHER             -> FALSE

NumGe(a, b) ==
  CASE a.t = "number"    -> a.v >= b
    [] a.t = "+Infinity" -> TRUE
    [] OTHER             -> FALSE

\* limit - measured, limit finite
Delta(limit, measured) ==
  CASE measured.t = "number"    -> Num(limit - measured.v)
    [] measured.t = "+Infinity" -> NegInf
    [] measured.t = "-Infinity" -> PosInf
    [] OTHER                    -> NaN

(* --------------------------- classifier -------------------------------- *)

\* measured == null || Number.isNaN(measured)
IsMissing(measured) == measured.t \in {"undefined", "null", "NaN"}

\* evaluateConstraint with the band taken from limit instead of |limit|
evaluateConstraintNoAbs(measured, c, cautionPct) ==
  IF IsMissing(measured) THEN [status |-> "missing", delta |-> Undefined]
  ELSE LET limit == c.limit
           delta == Delta(limit, measured)
       IN IF NumLe(measured, limit)
          THEN LET bandScaled == limit * cautionPct
               IN IF NumGe([measured EXCEPT !.v = @ * PctScale],
                           limit * PctScale - bandScaled)
                  THEN [status |-> "caution", delta |-> delta]
                  ELSE [status |-> "pass", delta |-> delta]
          ELSE [status |-> "fail", delta |-> delta]

\* evaluateConstraint with the band's lower edge excluded (> for >=)
evaluateConstraintStrict(measured, c, cautionPct) ==
  IF IsMissing(measured) THEN [status |-> "missing", delta |-> Undefined]
  ELSE LET limit == c.limit
           delta == Delta(limit, measured)
       IN IF NumLe(measured, limit)
          THEN LET bandScaled == Abs(limit) * cautionPct
               IN IF ~NumLe([measured EXCEPT !.v = @ * PctScale],
                            limit * PctScale - bandScaled)
                  THEN [status |-> "caution", delta |-> delta]
                  ELSE [status |-> "pass", delta |-> delta]
          ELSE [status |-> "fail", delta |-> delta]

\* evaluateConstraint with the band also applied above the limit
evaluateConstraintWide(measured, c, cautionPct) ==
  IF IsMissing(measured) THEN [status |-> "missing", delta |-> Undefined]
  ELSE LET limit == c.limit
           delta == Delta(limit, measured)
           bandScaled == Abs(limit) * cautionPct
       IN IF NumLe([measured EXCEPT !.v = @ * PctScale],
                   limit * PctScale + bandScaled)
          THEN IF NumGe([measured EXCEPT !.v = @ * PctScale],
                        limit * PctScale - bandScaled)
               THEN [status |-> "caution", delta |-> delta]
               ELSE [status |-> "pass", delta |-> delta]
          ELSE [status |-> "fail", delta |-> delta]

evaluateConstraint(measured, c, cautionPct) ==
  IF IsMissing(measured) THEN [status |-> "missing", delta |-> Undefined]
  ELSE LET limit == c.limit
           delta == Delta(limit, measured)
       IN IF NumLe(measured, limit)
          THEN \* band = Math.abs(limit) * cautionPct, times PctScale
               LET bandScaled == Abs(limit) * cautionPct
               IN IF NumGe([measured EXCEPT !.v = @ * PctScale],
                           limit * PctScale - bandScaled)
                  THEN [status |-> "caution", delta |-> delta]
                  ELSE [status |-> "pass", delta |-> delta]
          ELSE [status |-> "fail", delta |-> delta]

(* ------------------------- starter constraints ------------------------- *)

NumStarters == 5

\* The literal of lines 15-21, its randomUUID() calls answered by ids.  An
\* optional field (param, note) that is not set is a key the record lacks.
StarterList(ids) ==
  << [id |-> ids[1], site |-> "Head & Neck", oar |-> "Spinal cord",
      type |-> "Dmax", limit |-> 4500, unit |-> "Gy",
      note |-> "Example only"],
     [id |-> ids[2], site |-> "Head & Neck", oar |-> "Brainstem",
      type |-> "Dmax", limit |-> 5400, unit |-> "Gy",
      note |-> "Example only"],
     [id |-> ids[3], site |-> "Head & Neck", oar |-> "Parotid (mean)",
      type |-> "Dmean", limit |-> 2600, unit |-> "Gy",
      note |-> "Example only"],
     [id |-> ids[4], site |-> "Thorax", oar |-> "Lung (combined)",
      type |-> "Vx", param |-> Num(20), limit |-> 3500, unit |-> "%",
      note |-> "Example only (V20)"],
     [id |-> ids[5], site |-> "Thorax", oar |-> "Heart (mean)",
      type |-> "Dmean", limit |-> 2600, unit |-> "Gy",
      note |-> "Example only"] >>

\* crypto.randomUUID() at module load: the first NumStarters ids
starterConstraints == StarterList([i \in 1..NumStarters |-> i])

(* ------------------------- derived values ------------------------------ *)

Ids(cs) == {cs[i].id : i \in 1..Len(cs)}

\* measurements[id]
Get(m, id) == IF id \in DOMAIN m THEN m[id] ELSE Undefined

cautionPct == IF tightBand THEN TightPct ELSE LoosePct

RECURSIVE Dedup(_, _)
Dedup(s, seen) ==
  IF s = <<>> THEN <<>>
  ELSE IF Head(s) \in seen THEN Dedup(Tail(s), seen)
       ELSE <<Head(s)>> \o Dedup(Tail(s), seen \cup {Head(s)})

\* ["All", ...Array.from(new Set(constraints.map(c => c.site)))]
Sites(cs) == <<"All">> \o Dedup([i \in 1..Len(cs) |-> cs[i].site], {})

FilterBySite(cs, f) ==
  SelectSeq(cs, LAMBDA c : IF f = "All" THEN TRUE ELSE c.site = f)

filtered == FilterBySite(constraints, siteFilter)

StatusOf(c, m, pct) == evaluateConstraint(Get(m, c.id), c, pct).status

CountStatus(cs, m, pct, s) ==
  Cardinality({i \in 1..Len(cs) : StatusOf(cs[i], m, pct) = s})

Summary(cs, m, pct) ==
  [pass    |-> CountStatus(cs, m, pct, "pass"),
   caution |-> CountStatus(cs, m, pct, "caution"),
   fail    |-> CountStatus(cs, m, pct, "fail"),
   missing |-> CountStatus(cs, m, pct, "missing")]

summary == Summary(filtered, measurements, cautionPct)

(* ----------------------------- the draft ------------------------------- *)

Has(d, k) == k \in DOMAIN d

\* setNewC(s => ({ ...s, [k]: x }))
WithField(d, k, x) ==
  [f \in DOMAIN d \cup {k} |-> IF f = k THEN x ELSE d[f]]

\* !newC.k for a string field: the key is missing or holds ""
Falsy(d, k) == ~Has(d, k) \/ d[k] = ""

\* what the form's controls are given in this model
SiteOptions == {"Thorax", "Other"}
OarInputs   == {"Lung"}
TypeOptions == {"Dmax", "Dmean", "Vx"}
UnitOptions == {"Gy", "%"}
ParamInputs == {20}
LimitInputs == {2000}
NoteInputs  == {"protocol"}

\* values typed into a row's measurement field ("" clears it)
MeasuredInputs == {Undefined, Num(2700)}

(* ------------------------------ Init ----------------------------------- *)

NoCall == [measured |-> Undefined, c |-> starterConstraints[1], pct |-> 0]
NoRet  == [status |-> "none", delta |-> Undefined]

AppInit ==
  /\ constraints = starterConstraints
  /\ measurements = <<>>
  /\ siteFilter = "All"
  /\ tightBand = FALSE
  /\ newC = [site |-> "Other", type |-> "Dmax", unit |-> "Gy"]
  /\ nextId = NumStarters + 1

Init ==
  /\ AppInit
  /\ call = NoCall
  /\ ret = NoRet

(* ------------------------- the form's handlers ------------------------- *)

SetNewSite(s) ==
  /\ newC' = WithField(newC, "site", s)
  /\ UNCHANGED <<constraints, measurements, siteFilter, tightBand, nextId,
                 call, ret>>

SetNewOar(o) ==
  /\ newC' = WithField(newC, "oar", o)
  /\ UNCHANGED <<constraints, measurements, siteFilter, tightBand, nextId,
                 call, ret>>

SetNewType(t) ==
  /\ newC' = WithField(newC, "type", t)
  /\ UNCHANGED <<constraints, measurements, siteFilter, tightBand, nextId,
                 call, ret>>

\* the param input is rendered only while newC.type === "Vx"
SetNewParam(p) ==
  /\ newC["type"] = "Vx"
  /\ newC' = WithField(newC, "param", p)
  /\ UNCHANGED <<constraints, measurements, siteFilter, tightBand, nextId,
                 call, ret>>

SetNewLimit(l) ==
  /\ newC' = WithField(newC, "limit", l)
  /\ UNCHANGED <<constraints, measurements, siteFilter, tightBand, nextId,
                 call, ret>>

SetNewUnit(u) ==
  /\ newC' = WithField(newC, "unit", u)
  /\ UNCHANGED <<constraints, measurements, siteFilter, tightBand, nextId,
                 call, ret>>

SetNewNote(n) ==
  /\ newC' = WithField(newC, "note", n)
  /\ UNCHANGED <<constraints, measurements, siteFilter, tightBand, nextId,
                 call, ret>>

(* ---------------------------- addConstraint ---------------------------- *)

\* the guard of line 61: the draft is rejected
Rejected(d) ==
  \/ Falsy(d, "site") \/ Falsy(d, "oar") \/ Falsy(d, "type")
  \/ ~Has(d, "limit") \/ Falsy(d, "unit")

\* Number(newC.param): Number(undefined) is NaN
NumberOfParam(d) == IF Has(d, "param") THEN Num(d["param"]) ELSE NaN

\* crypto.randomUUID() answering with an id it has handed out before
FreshIdReused == NumStarters

\* crypto.randomUUID(): an id never handed out before
FreshId == nextId

\* the object literal of lines 62-71; a field set to undefined is left out
NewConstraint(d, id) ==
  LET keys == {"id", "site", "oar", "type", "limit", "unit"}
                \cup (IF d["type"] = "Vx" THEN {"param"} ELSE {})
                \cup (IF Has(d, "note") THEN {"note"} ELSE {})
  IN [k \in keys |->
        CASE k = "id"    -> id
          [] k = "param" -> NumberOfParam(d)
          [] OTHER       -> d[k]]

\* another id may be drawn within the bound
CanAdd == nextId <= NumStarters + MaxAdds

addConstraint ==
  /\ CanAdd
  /\ IF Rejected(newC)
     THEN UNCHANGED <<constraints, newC, nextId>>
     ELSE /\ constraints' = Append(constraints, NewConstraint(newC, FreshId))
          /\ nextId' = nextId + 1
          /\ newC' = [site |-> newC["site"], type |-> newC["type"],
                      unit |-> newC["unit"]]
  /\ UNCHANGED <<measurements, siteFilter, tightBand, call, ret>>

(* --------------------------- removeConstraint -------------------------- *)

\* prev.filter(c => c.id !== id)
RemoveFromList(cs, id) == SelectSeq(cs, LAMBDA c : c.id # id)

\* { const m = { ...prev }; delete m[id]; return m; }
DeleteKey(m, id) == [k \in DOMAIN m \ {id} |-> m[k]]

removeConstraint(id) ==
  /\ constraints' = RemoveFromList(constraints, id)
  /\ measurements' = DeleteKey(measurements, id)
  /\ UNCHANGED <<siteFilter, tightBand, newC, nextId, call, ret>>

(* ---------------------------- measurements ----------------------------- *)

\* ({ ...m, [id]: x })
PutKey(m, id, x) == [k \in DOMAIN m \cup {id} |-> IF k = id THEN x ELSE m[k]]

\* the onChange of a row's measurement input
SetMeasurement(id, x) ==
  /\ measurements' = PutKey(measurements, id, x)
  /\ UNCHANGED <<constraints, siteFilter, tightBand, newC, nextId, call, ret>>

Max(a, b) == IF a >= b THEN a ELSE b

\* the value loadDemo gives the row at index i (0-based) of filtered
DemoValue(i, c) ==
  CASE i = 0 -> c.limit - (c.limit * 3) \div 100
    [] i = 1 -> c.limit - (c.limit * 20) \div 100
    [] i = 2 -> c.limit + (c.limit * 10) \div 100
    [] i = 3 -> c.limit
    [] i = 4 -> Max(0, c.limit - 50)

\* the map built by filtered.slice(0, 6).forEach(...): the sixth row gets
\* no value
DemoMap(fs) ==
  LET n == IF Len(fs) < 5 THEN Len(fs) ELSE 5
  IN [id \in {fs[i].id : i \in 1..n} |->
        LET i == CHOOSE j \in 1..n : fs[j].id = id
        IN Num(DemoValue(i - 1, fs[i]))]

\* ({ ...m, ...map })
Merge(m, map) ==
  [k \in DOMAIN m \cup DOMAIN map |->
     IF k \in DOMAIN map THEN map[k] ELSE m[k]]

loadDemo ==
  /\ measurements' = Merge(measurements, DemoMap(filtered))
  /\ UNCHANGED <<constraints, siteFilter, tightBand, newC, nextId, call, ret>>

(* ------------------------- filter, band, reset ------------------------- *)

SetSiteFilter(s) ==
  /\ siteFilter' = s
  /\ UNCHANGED <<constraints, measurements, tightBand, newC, nextId, call, ret>>

SetTightBand(b) ==
  /\ tightBand' = b
  /\ UNCHANGED <<constraints, measurements, siteFilter, newC, nextId, call, ret>>

\* a reset that builds the starter list anew, drawing new ids
ResetFreshIds ==
  /\ nextId <= 2 * NumStarters + MaxAdds
  /\ constraints' = StarterList([i \in 1..NumStarters |-> nextId + i - 1])
  /\ nextId' = nextId + NumStarters
  /\ UNCHANGED <<measurements, siteFilter, tightBand, newC, call, ret>>

\* onClick={() => setConstraints(starterConstraints)}
Reset ==
  /\ constraints' = starterConstraints
  /\ UNCHANGED <<measurements, siteFilter, tightBand, newC, nextId, call, ret>>

(* --------------------------- specifications ---------------------------- *)

SiteChoices == {Sites(constraints)[i] : i \in 1..Len(Sites(constraints))}

\* the measurement map stays within MaxMeasured entries
Fits(keys) == Cardinality(DOMAIN measurements \cup keys) <= MaxMeasured

\* The whole component: the form, the table and the toolbar.  The form is
\* edited while another constraint may still be added (CanAdd), and the
\* measurement map is kept within MaxMeasured entries (Fits); both only
\* bound the state space.
Next ==
  \/ CanAdd /\ \E s \in SiteOptions : SetNewSite(s)
  \/ CanAdd /\ \E o \in OarInputs : SetNewOar(o)
  \/ CanAdd /\ \E t \in TypeOptions : SetNewType(t)
  \/ CanAdd /\ \E p \in ParamInputs : SetNewParam(p)
  \/ CanAdd /\ \E l \in LimitInputs : SetNewLimit(l)
  \/ CanAdd /\ \E u \in UnitOptions : SetNewUnit(u)
  \/ CanAdd /\ \E n \in NoteInputs : SetNewNote(n)
  \/ addConstraint
  \/ \E id \in Ids(filtered) : removeConstraint(id)
  \/ \E id \in Ids(filtered) : \E x \in MeasuredInputs :
        Fits({id}) /\ SetMeasurement(id, x)
  \/ Fits(DOMAIN DemoMap(filtered)) /\ loadDemo
  \/ \E s \in SiteChoices : SetSiteFilter(s)
  \/ SetTightBand(~tightBand)
  \/ Reset

Spec == Init /\ [][Next]_vars

\* The constraint store alone: the form, Add, Delete and Reset.  No
\* measurement is entered, so MaxAdds is the only bound.
NextStore ==
  \/ CanAdd /\ \E s \in SiteOptions : SetNewSite(s)
  \/ CanAdd /\ \E o \in OarInputs : SetNewOar(o)
  \/ CanAdd /\ \E t \in TypeOptions : SetNewType(t)
  \/ CanAdd /\ \E p \in ParamInputs : SetNewParam(p)
  \/ CanAdd /\ \E l \in LimitInputs : SetNewLimit(l)
  \/ CanAdd /\ \E u \in UnitOptions : SetNewUnit(u)
  \/ CanAdd /\ \E n \in NoteInputs : SetNewNote(n)
  \/ addConstraint
  \/ \E id \in Ids(filtered) : removeConstraint(id)
  \/ Reset

SpecStore == Init /\ [][NextStore]_vars

\* The review of a plan against the constraints at hand: the table and the
\* toolbar, without the form.  The measurement map is not bounded here: every
\* row may hold a typed or a demo value.
NextReview ==
  \/ \E id \in Ids(filtered) : removeConstraint(id)
  \/ \E id \in Ids(filtered) : \E x \in MeasuredInputs : SetMeasurement(id, x)
  \/ loadDemo
  \/ \E s \in SiteChoices : SetSiteFilter(s)
  \/ SetTightBand(~tightBand)
  \/ Reset

SpecReview == Init /\ [][NextReview]_vars

(* ------------------- direct calls of the classifier -------------------- *)

EvalLimits == {-20, -10, 0, 10, 20}
EvalPcts   == {0, TightPct, LoosePct, 100, 150}
EvalMeasured ==
  {Num(x) : x \in -MaxVal..MaxVal} \cup {Undefined, Null, NaN, PosInf, NegInf}

InitEval ==
  /\ AppInit
  /\ call \in [measured : EvalMeasured,
               c : {[starterConstraints[1] EXCEPT !.limit = l] : l \in EvalLimits},
               pct : EvalPcts]
  /\ ret = NoRet

Evaluate ==
  /\ ret = NoRet
  /\ ret' = evaluateConstraint(call.measured, call.c, call.pct)
  /\ UNCHANGED <<constraints, measurements, siteFilter, tightBand, newC,
                 nextId, call>>

NextEval == Evaluate

SpecEval == InitEval /\ [][NextEval]_vars

(* ======================= the classifier's claims ======================= *)

Returned == ret # NoRet

\* C3: for a finite measured value and band = |limit| * cautionFraction,
\* the result is pass below limit - band, caution from limit - band to limit
\* inclusive, fail above limit, and the margin is limit - measured in all
\* three cases.
C3_Classify ==
  (Returned /\ call.measured.t = "number") =>
    LET m == call.measured.v
        L == call.c.limit
        edge == L * PctScale - Abs(L) * call.pct   \* (limit - band) * PctScale
    IN /\ (m * PctScale < edge) => ret.status = "pass"
       /\ (edge <= m * PctScale /\ m <= L) => ret.status = "caution"
       /\ (m > L) => ret.status = "fail"
       /\ ret.delta = Num(L - m)

\* a value strictly inside the band of a negative limit was classified
C3_Witness ==
  /\ Returned
  /\ call.c.limit < 0
  /\ call.pct = LoosePct
  /\ call.measured = Num(call.c.limit - 1)
  /\ ret.status = "caution"

\* C4 as stated: measured = limit gives caution for every cautionFraction > 0
\* and pass for cautionFraction = 0.
C4_Original ==
  (Returned /\ call.measured = Num(call.c.limit)) =>
    /\ (call.pct > 0) => ret.status = "caution"
    /\ (call.pct = 0) => ret.status = "pass"

\* C4 amended: measured = limit gives caution for every cautionFraction >= 0,
\* zero included; it never gives pass.
C4_Boundary ==
  (Returned /\ call.measured = Num(call.c.limit)) => ret.status = "caution"

\* measured = limit was classified with a zero band
C4_Witness ==
  /\ Returned
  /\ call.measured = Num(call.c.limit)
  /\ call.pct = 0
  /\ ret.status = "caution"

\* C5: a measured value that is absent or not a finite number (undefined,
\* null, NaN, +Infinity, -Infinity) gives missing with no margin.
C5_Missing ==
  (Returned /\ call.measured.t # "number") =>
    ret = [status |-> "missing", delta |-> Undefined]


(* ========================= the store's claims ========================== *)

\* measurements[id] holds a value
Stored(m, id) == Get(m, id) # Undefined

\* every id crypto.randomUUID() has handed out; each was carried by a
\* constraint of the store (the starter ids at start-up, the others by Add)
EverCarried == 1..(nextId - 1)

\* C1: every id with a stored measurement is the id of a constraint
\* currently in the store (no orphan measurement).
C1_NoOrphan ==
  \A id \in DOMAIN measurements :
    Stored(measurements, id) => id \in Ids(constraints)

\* C2: a reset leaves exactly the starter set, in its order, in the store and
\* no measurement under any id.
C2_ResetDiscards ==
  [][Reset =>
       /\ constraints' = starterConstraints
       /\ \A id \in EverCarried : ~Stored(measurements', id)]_vars

\* the draft C6 calls invalid: a required field is missing, or the type is
\* Vx and param is missing (a param the form has set is always numeric)
InvalidDraft(d) ==
  \/ Falsy(d, "site") \/ Falsy(d, "oar") \/ Falsy(d, "type")
  \/ ~Has(d, "limit") \/ Falsy(d, "unit")
  \/ (d["type"] = "Vx" /\ ~Has(d, "param"))

VxHasNumericParam(cs) ==
  \A i \in 1..Len(cs) :
    cs[i].type = "Vx" => (Has(cs[i], "param") /\ cs[i].param.t = "number")

\* C6: Add with an invalid draft leaves the constraint list and the
\* measurements unchanged, and every Vx constraint of the store has a
\* numeric param.
C6_AddValidates ==
  [][/\ (addConstraint /\ InvalidDraft(newC)) =>
          UNCHANGED <<constraints, measurements>>
     /\ VxHasNumericParam(constraints')]_vars

C8_UniqueIds ==
  \A i, j \in 1..Len(constraints) :
    constraints[i].id = constraints[j].id => i = j

\* an added constraint stands in the store beside the five starters
C8_Witness ==
  /\ Len(constraints) = NumStarters + 1
  /\ constraints[NumStarters + 1].id > NumStarters

\* C9 as stated: after a reset no constraint of the store carries an id that
\* a constraint carried before.
C9_Original ==
  [][Reset => Ids(constraints') \cap EverCarried = {}]_vars

\* C9 amended: a reset installs the starter constraints under the ids they
\* were given once, at start-up, and draws no new id.
C9_ResetKeepsIds ==
  [][Reset =>
       /\ Len(constraints') = NumStarters
       /\ \A i \in 1..NumStarters : constraints'[i].id = i
       /\ nextId' = nextId]_vars

\* the starter set stands in the store after a constraint was added and
\* dropped again
C9_Witness ==
  /\ constraints = starterConstraints
  /\ nextId > NumStarters + 1

(* ========================= the review's claims ========================= *)

\* C10: switching the tight band, with the constraints, the measurements and
\* the site filter as they are, keeps each filtered constraint's being fail
\* or missing, keeps the fail and missing counts and the sum pass + caution,
\* and a constraint that is caution under the tight band is caution under
\* the loose one.
C10_ToggleKeeps ==
  [][(tightBand' # tightBand /\ UNCHANGED <<constraints, measurements, siteFilter>>) =>
       /\ \A i \in 1..Len(filtered) :
            LET before == StatusOf(filtered[i], measurements, cautionPct)
                after  == StatusOf(filtered[i], measurements, cautionPct')
            IN /\ (before = "fail") <=> (after = "fail")
               /\ (before = "missing") <=> (after = "missing")
               /\ StatusOf(filtered[i], measurements, TightPct) = "caution"
                    => StatusOf(filtered[i], measurements, LoosePct) = "caution"
       /\ summary'.fail = summary.fail
       /\ summary'.missing = summary.missing
       /\ summary'.pass + summary'.caution = summary.pass + summary.caution]_vars

\* the tight band is on, and the table shows a row that it turned from
\* caution to pass, a failing row and a row without a measurement
C10_Witness ==
  /\ tightBand
  /\ \E i \in 1..Len(filtered) :
       /\ StatusOf(filtered[i], measurements, TightPct) = "pass"
       /\ StatusOf(filtered[i], measurements, LoosePct) = "caution"
  /\ summary.fail > 0
  /\ summary.missing > 0


====
